---------------------------- MODULE Spec2Model ----------------------------
(***************************************************************************)
(* Model of Urho3D::IncrementalLightBaker                                  *)
(* (Source/Urho3D/Glow/IncrementalLightBaker.cpp).                         *)
(*                                                                         *)
(* The baker is a single-threaded pipeline                                 *)
(*   Initialize -> ProcessScene -> Bake -> CommitScene                     *)
(* whose phases exchange data through a BakedLightCache.  The state is     *)
(* the Impl object (settings_, chunks_, numLightmapCharts_), the cache,    *)
(* the scene, the file system, the locals of the running phase and the     *)
(* position of the running phase.  The stop token is set by the            *)
(* environment at any moment and polled by the two bake phases only.       *)
(*                                                                         *)
(* A colour is modelled by one integer channel: every operation of the     *)
(* baker on colours is channel-wise.                                       *)
(***************************************************************************)
EXTENDS Integers, Sequences, FiniteSets, TLC

(***************************************************************************)
(* Bounds of the model.                                                    *)
(***************************************************************************)
MaxChunks == 2

MaxCharts == 2

MaxLights == 1

MaxGroups == 1

MaxRadius == 1

MaxIterations == 1

LightmapSize == 2

MaxBakeRuns == 2

MaxSortLen == 2

(***************************************************************************)
(* Program constants of Swizzle.                                           *)
(***************************************************************************)
numComponents == 3

resultBits == 64

accumulatorBits == 32

maxBitsPerComponent == resultBits \div numComponents

(***************************************************************************)
(* Small helpers.                                                          *)
(***************************************************************************)
Range(s) == {s[k] : k \in 1..Len(s)}

MaxOf(S) == CHOOSE m \in S : \A x \in S : x <= m

RECURSIVE SumTo(_, _)
SumTo(f, n) == IF n = 0 THEN 0 ELSE f[n] + SumTo(f, n - 1)

RECURSIVE SetSum(_, _)
SetSum(f, S) ==
    IF S = {} THEN 0
    ELSE LET x == CHOOSE y \in S : TRUE IN f[x] + SetSum(f, S \ {x})

RECURSIVE Pow2(_)
Pow2(n) == IF n = 0 THEN 1 ELSE 2 * Pow2(n - 1)

\* Bit i of the 32-bit unsigned value static_cast<unsigned>(d).
UnsignedBit(d, i) ==
    IF d >= 0 THEN (d \div Pow2(i)) % 2
    ELSE 1 - ((((-d) - 1) \div Pow2(i)) % 2)

(***************************************************************************)
(* Chunk locality sort.                                                    *)
(*                                                                         *)
(* A key is the set of positions of its 1 bits: TLC's integers are too     *)
(* narrow for an unsigned long long.                                       *)
(***************************************************************************)
MinIntVector3(lhs, rhs) ==
    << IF lhs[1] < rhs[1] THEN lhs[1] ELSE rhs[1],
       IF lhs[2] < rhs[2] THEN lhs[2] ELSE rhs[2],
       IF lhs[3] < rhs[3] THEN lhs[3] ELSE rhs[3] >>

\* The width of the accumulator `result` of Swizzle, which is an unsigned.
SwizzleResultWidth == accumulatorBits

\* result |= bit << (i * numComponents + j) for every j, i; the accumulator
\* keeps its low SwizzleResultWidth bits.
Swizzle(vec, base) ==
    { i * numComponents + (j - 1) :
        <<j, i>> \in { p \in (1..numComponents) \X (0..(maxBitsPerComponent - 1)) :
                        /\ UnsignedBit(vec[p[1]] - base[p[1]], p[2]) = 1
                        /\ p[2] * numComponents + (p[1] - 1) < SwizzleResultWidth } }

\* lhs < rhs for two keys.
KeyLess(lhs, rhs) ==
    /\ lhs # rhs
    /\ MaxOf((lhs \ rhs) \cup (rhs \ lhs)) \in rhs

RECURSIVE AccumulateMin(_, _)
AccumulateMin(s, init) ==
    IF s = <<>> THEN init ELSE AccumulateMin(Tail(s), MinIntVector3(init, Head(s)))

BaseChunkIndex(s) == AccumulateMin(s, s[1])

compareSwizzled(lhs, rhs, base) == KeyLess(Swizzle(lhs, base), Swizzle(rhs, base))

\* ea::sort on a short range is an insertion sort: each element moves left
\* past the elements that compare greater than it.
RECURSIVE InsertSorted(_, _, _)
InsertSorted(sorted, x, base) ==
    IF sorted = <<>> THEN <<x>>
    ELSE LET last == sorted[Len(sorted)]
         IN  IF compareSwizzled(x, last, base)
             THEN Append(InsertSorted(SubSeq(sorted, 1, Len(sorted) - 1), x, base), last)
             ELSE Append(sorted, x)

RECURSIVE InsertionSort(_, _, _)
InsertionSort(s, n, base) ==
    IF n = 0 THEN <<>>
    ELSE InsertSorted(InsertionSort(s, n - 1, base), s[n], base)

SortChunks(s) ==
    IF s = <<>> THEN s ELSE InsertionSort(s, Len(s), BaseChunkIndex(s))

(***************************************************************************)
(* Paths.  A path is a sequence of tokens; "/" is the separator token and  *)
(* a token of Extensions is a file extension.                              *)
(***************************************************************************)
Extensions == {".xml"}

ReplaceExtension(fileName) ==
    IF fileName # <<>> /\ fileName[Len(fileName)] \in Extensions
    THEN SubSeq(fileName, 1, Len(fileName) - 1)
    ELSE fileName

AddTrailingSlash(path) ==
    IF path # <<>> /\ path[Len(path)] # "/" THEN Append(path, "/") ELSE path

StartsWith(fileName, dir) ==
    /\ Len(dir) <= Len(fileName)
    /\ SubSeq(fileName, 1, Len(dir)) = dir

RECURSIVE ResourceNameFrom(_, _, _)
ResourceNameFrom(resourceDirs, fileName, k) ==
    IF k > Len(resourceDirs) THEN <<>>
    ELSE IF StartsWith(fileName, resourceDirs[k])
         THEN SubSeq(fileName, Len(resourceDirs[k]) + 1, Len(fileName))
         ELSE ResourceNameFrom(resourceDirs, fileName, k + 1)

GetResourceName(resourceDirs, fileName) == ResourceNameFrom(resourceDirs, fileName, 1)

GetLightmapFileName(outputDirectory, lightmapIndex) ==
    outputDirectory \o <<"lightmap-", ToString(lightmapIndex), ".png">>

GetLightProbeBakedDataFileName(outputDirectory, chunk, index) ==
    outputDirectory \o <<"probes-", ToString(chunk[1]), "-", ToString(chunk[2]), "-",
                          ToString(chunk[3]), "-", ToString(index), ".bin">>

GiDataFileName == <<"gi", "/", "GI.bin">>

\* GetPath: the directory part of a file name, with its trailing separator.
RECURSIVE GetPath(_)
GetPath(fileName) ==
    IF fileName = <<>> \/ fileName[Len(fileName)] = "/" THEN fileName
    ELSE GetPath(SubSeq(fileName, 1, Len(fileName) - 1))

(***************************************************************************)
(* The scene the collector serves, and the environment of Initialize.      *)
(***************************************************************************)
ChunkCoords == {<<0, 0, 0>>, <<1, 0, 0>>, <<0, 1, 0>>}

ChunkSets == {S \in SUBSET ChunkCoords : Cardinality(S) <= MaxChunks}

SceneFileNames == {<<>>, <<"data/", "scene">>, <<"data/", "scene", ".xml">>}

OutputDirectories == {<<>>, <<"data/", "scene">>}

Envs ==
    [pixelUVOffsetZero : BOOLEAN,
     sceneFileName : SceneFileNames,
     outputDirOk : BOOLEAN,
     giDirOk : BOOLEAN,
     giFileOk : BOOLEAN,
     imageOk : BOOLEAN,
     imageSaveOk : BOOLEAN,
     resourceDirs : {<<>>, << <<"data/">> >>}]

GoodEnv ==
    [pixelUVOffsetZero |-> TRUE, sceneFileName |-> <<"data/", "scene", ".xml">>,
     outputDirOk |-> TRUE, giDirOk |-> TRUE, giFileOk |-> TRUE, imageOk |-> TRUE,
     imageSaveOk |-> TRUE,
     resourceDirs |-> << <<"data/">> >>]

\* Two chunks are neighbours when they share a face.
Abs(x) == IF x < 0 THEN -x ELSE x

Neighbours(a, b) ==
    Abs(a[1] - b[1]) + Abs(a[2] - b[2]) + Abs(a[3] - b[3]) = 1

NumTexels == LightmapSize * LightmapSize

Texels == 1..NumTexels

\* The texel indices of a buffer constructed with the given lightmap size.
BufferTexels(lightmapSize) == 1..(lightmapSize * lightmapSize)

NoChunk == <<>>

NoBuffer == <<>>

VARIABLES
    collectorChunks,      \* BakedSceneCollector: the chunks of the locked scene
    geomCharts,           \* per chunk: the charts its unique geometries need
    chunkLights,          \* per chunk: the number of lights affecting it
    chunkGroups,          \* per chunk: the number of its unique light probe groups
    env,                  \* Graphics, Scene file name, FileSystem, ResourceCache
    settings_,            \* Impl::settings_
    chunks_,              \* Impl::chunks_
    numLightmapCharts_,   \* Impl::numLightmapCharts_
    sceneCharts,          \* scene: per chunk, the lightmap indices of its geometries
    sceneLightmaps,       \* scene: the lightmap list
    groupFileRefs,        \* scene: baked data file of each light probe group
    giFileRef,            \* scene: the file of the GlobalIllumination component
    fsDirs,               \* file system: directories created
    fsFiles,              \* file system: names of the files saved
    savedImages,          \* file system: pixels of each lightmap image saved
    savedProbes,          \* file system: baked data of each probe group saved
    vicinityCache,        \* BakedLightCache: chunk vicinities
    directCache,          \* BakedLightCache: direct light, by lightmap index
    lightmapCache,        \* BakedLightCache: final lightmaps, by lightmap index
    stopToken,            \* StopToken::IsStopped()
    pc,                   \* position of the running phase
    initResult,           \* what Initialize returned
    bakeResult,           \* what the last Bake returned
    bakeRun,              \* number of calls of Bake so far
    chunkIdx,             \* position of the chunk loop in chunks_
    chartIdx,             \* i of the lightmap loop
    lightIdx,             \* position of the loop over bakedLights_
    groupIdx,             \* groupIndex of the save loop
    bakingChunk,          \* the chunk whose vicinity the phase holds
    bakedDirect,          \* the direct light being baked (direct phase)
    directRef,            \* lightmap index behind the shared_ptr bakedDirect (indirect phase)
    bakedDirectLightmaps, \* indices of the non-null entries of the table
    bakedIndirect,        \* the indirect light being baked
    bakedLightmap,        \* the final lightmap being built
    lightProbesBakedData, \* LightProbeCollectionBakedData of BakeIndirectAndFilter
    buffer,               \* stitch: the blend buffer
    lightmapImage,        \* stitch: the reusable image
    hist,                 \* history of the calls made (not program state)
    sortInput,            \* sort check: GetChunks() of a chunk set
    sortOffset,           \* sort check: the translation of the second set
    sortTranslated,       \* sort check: GetChunks() of the translated set
    sortedInput,          \* sort check: chunks_ for the first set
    sortedTranslated      \* sort check: chunks_ for the translated set

sortVars == <<sortInput, sortOffset, sortTranslated, sortedInput, sortedTranslated>>

inputVars == <<collectorChunks, geomCharts, chunkLights, chunkGroups, env, sortVars>>

sceneVars == <<sceneCharts, sceneLightmaps, groupFileRefs, giFileRef>>

fsVars == <<fsDirs, fsFiles, savedImages, savedProbes>>

cacheVars == <<vicinityCache, directCache, lightmapCache>>

loopVars == <<chunkIdx, chartIdx, lightIdx, groupIdx, bakingChunk>>

bakeLocals == <<bakedDirect, directRef, bakedDirectLightmaps, bakedIndirect,
                bakedLightmap, lightProbesBakedData>>

stitchLocals == <<buffer, lightmapImage>>

vars == <<inputVars, settings_, chunks_, numLightmapCharts_, sceneVars, fsVars,
          cacheVars, stopToken, pc, initResult, bakeResult, bakeRun, loopVars,
          bakeLocals, stitchLocals, hist>>

(***************************************************************************)
(* The external collaborators, as deterministic functions.                 *)
(***************************************************************************)
M_MAX_UNSIGNED == -1

ProbesPerGroup == 1

\* GenerateLightmapCharts(geometries, settings, baseChartIndex): the indices
\* of the charts generated, which continue from baseChartIndex.
GenerateLightmapCharts(numCharts, baseChartIndex) ==
    [k \in 1..numCharts |-> baseChartIndex + (k - 1)]

\* CreateBakedChunkVicinity(context, collector, chunk, settings).
CreateBakedChunkVicinity(chunk) ==
    [lightmaps_ |-> sceneCharts[chunk],
     seams_ |-> [k \in 1..Len(sceneCharts[chunk]) |-> sceneCharts[chunk][k] % 2 = 1],
     lightmapSize_ |-> LightmapSize,
     bakedLights_ |-> chunkLights[chunk],
     numUniqueLightProbes_ |-> chunkGroups[chunk],
     numProbes |-> chunkGroups[chunk] * ProbesPerGroup,
     raytracerGeometries |->
        {M_MAX_UNSIGNED} \cup Range(sceneCharts[chunk])
        \cup UNION {Range(sceneCharts[n]) : n \in {m \in collectorChunks : Neighbours(chunk, m)}}]

(***************************************************************************)
(* History of the calls made, kept for the properties.                     *)
(***************************************************************************)
NoHist ==
    [storeDirect |-> <<>>,        \* lightmap indices of StoreDirectLight, this Bake
     storeLightmap |-> <<>>,      \* lightmap indices of StoreLightmap, this Bake
     loadLightmap |-> <<>>,       \* lightmap indices of LoadLightmap
     saveImage |-> <<>>,          \* file names of the images saved
     indirectSteps |-> 0,         \* steps of BakeIndirectAndFilter, this Bake
     probeBakes |-> 0,            \* probe baking calls, this Bake
     probeSaves |-> 0,            \* SaveLightProbesBakedData calls, this Bake
     failedSaves |-> 0,           \* of which failed
     nullLoads |-> {},            \* loads that found no entry under the key
     stopObserved |-> "none",     \* the phase whose check saw the token stopped
     stitchCalls |-> <<>>,        \* lightmap indices of StitchLightmapSeams
     tableLoads |-> {},           \* LoadDirectLight keys of the chunk's direct table
     chartSteps |-> <<>>,         \* calls made for the lightmap of the indirect loop
     normalized |-> <<>>,         \* the indirect buffer as NormalizeLight left it
     storedDirect |-> <<>>,       \* content of each direct buffer when stored
     firstBake |-> <<>>]          \* cache content when the first Bake returned true

(***************************************************************************)
(* Initial state: the object as constructed by Initialize's first line.    *)
(***************************************************************************)
SettingsWith(outputDirectories) ==
    [outputDirectory_ : outputDirectories,
     directRadius : 0..MaxRadius,
     indirectRadius : 0..MaxRadius,
     numIterations : 0..MaxIterations]

InitWithGroups(chunkSets, envs, settings, groups) ==
    /\ collectorChunks \in chunkSets
    /\ geomCharts \in [collectorChunks -> 0..MaxCharts]
    /\ chunkLights \in [collectorChunks -> 0..MaxLights]
    /\ chunkGroups \in [collectorChunks -> groups]
    /\ env \in envs
    /\ settings_ \in settings
    /\ chunks_ = <<>>
    /\ numLightmapCharts_ = 0
    /\ sceneCharts = [c \in collectorChunks |-> <<>>]
    /\ sceneLightmaps = <<>>
    /\ groupFileRefs = {}
    /\ giFileRef = <<>>
    /\ fsDirs = {}
    /\ fsFiles = {}
    /\ savedImages = <<>>
    /\ savedProbes = <<>>
    /\ vicinityCache = <<>>
    /\ directCache = <<>>
    /\ lightmapCache = <<>>
    /\ stopToken = FALSE
    /\ pc = "constructed"
    /\ initResult = "none"
    /\ bakeResult = "none"
    /\ bakeRun = 0
    /\ chunkIdx = 0
    /\ chartIdx = 0
    /\ lightIdx = 0
    /\ groupIdx = 0
    /\ bakingChunk = NoChunk
    /\ bakedDirect = NoBuffer
    /\ directRef = M_MAX_UNSIGNED
    /\ bakedDirectLightmaps = {}
    /\ bakedIndirect = NoBuffer
    /\ bakedLightmap = NoBuffer
    /\ lightProbesBakedData = <<>>
    /\ buffer = [t \in Texels |-> [rgb |-> 0, a |-> 0]]
    /\ lightmapImage = [t \in Texels |-> 0]
    /\ hist = NoHist

InitWith(chunkSets, envs, settings) ==
    InitWithGroups(chunkSets, envs, settings, 0..MaxGroups)

BadBackendEnv == [GoodEnv EXCEPT !.pixelUVOffsetZero = FALSE]

NoSort ==
    /\ sortInput = <<>>
    /\ sortOffset = <<0, 0, 0>>
    /\ sortTranslated = <<>>
    /\ sortedInput = <<>>
    /\ sortedTranslated = <<>>

Init ==
    /\ InitWith(ChunkSets, {GoodEnv, BadBackendEnv}, SettingsWith({<<"data/", "scene">>}))
    /\ NoSort

(***************************************************************************)
(* Impl::Initialize                                                        *)
(***************************************************************************)
\* Initialize without the test of line 132: a scene file name without an
\* extension is taken as the output directory.
ResolveOutputDirectoryUntested ==
    IF settings_.outputDirectory_ # <<>> THEN AddTrailingSlash(settings_.outputDirectory_)
    ELSE IF env.sceneFileName = <<>> THEN <<>>
    ELSE AddTrailingSlash(ReplaceExtension(env.sceneFileName))

\* The output directory Initialize settles on, or <<>> when it gives up.
ResolveOutputDirectory ==
    IF settings_.outputDirectory_ # <<>> THEN AddTrailingSlash(settings_.outputDirectory_)
    ELSE IF env.sceneFileName = <<>> THEN <<>>
    ELSE IF ReplaceExtension(env.sceneFileName) = env.sceneFileName THEN <<>>
    ELSE AddTrailingSlash(ReplaceExtension(env.sceneFileName))

Initialize ==
    /\ pc = "constructed"
    /\ LET outputDirectory == ResolveOutputDirectory
           giFileName == outputDirectory \o GiDataFileName
           giFilePath == GetPath(giFileName)
       IN
       IF ~env.pixelUVOffsetZero
       THEN /\ pc' = "initFailed"
            /\ initResult' = "unsupportedBackend"
            /\ UNCHANGED <<settings_, chunks_, fsDirs, fsFiles, giFileRef>>
       ELSE IF outputDirectory = <<>>
       THEN /\ pc' = "initFailed"
            /\ initResult' = "noOutputDirectory"
            \* line 131 has overwritten the setting when the extension test fails
            /\ settings_' = [settings_ EXCEPT !.outputDirectory_ =
                                IF env.sceneFileName = <<>> THEN @
                                ELSE ReplaceExtension(env.sceneFileName)]
            /\ UNCHANGED <<chunks_, fsDirs, fsFiles, giFileRef>>
       ELSE IF ~env.outputDirOk
       THEN /\ pc' = "initFailed"
            /\ initResult' = "cannotCreateOutputDirectory"
            /\ settings_' = [settings_ EXCEPT !.outputDirectory_ = outputDirectory]
            /\ UNCHANGED <<chunks_, fsDirs, fsFiles, giFileRef>>
       ELSE \E order \in {s \in [1..Cardinality(collectorChunks) -> collectorChunks] :
                            Range(s) = collectorChunks} :
            /\ settings_' = [settings_ EXCEPT !.outputDirectory_ = outputDirectory]
            /\ chunks_' = SortChunks(order)
            /\ IF ~env.giDirOk
               THEN /\ pc' = "initFailed"
                    /\ initResult' = "cannotCreateGiDirectory"
                    /\ fsDirs' = fsDirs \cup {outputDirectory}
                    /\ UNCHANGED <<fsFiles, giFileRef>>
               ELSE IF ~env.giFileOk
               THEN /\ pc' = "initFailed"
                    /\ initResult' = "cannotSaveGiFile"
                    /\ fsDirs' = fsDirs \cup {outputDirectory, giFilePath}
                    /\ UNCHANGED <<fsFiles, giFileRef>>
               ELSE /\ pc' = "initialized"
                    /\ initResult' = "ok"
                    /\ fsDirs' = fsDirs \cup {outputDirectory, giFilePath}
                    /\ fsFiles' = fsFiles \cup {giFileName}
                    /\ giFileRef' = GetResourceName(env.resourceDirs, giFileName)
    /\ UNCHANGED <<inputVars, numLightmapCharts_, sceneCharts, sceneLightmaps,
                   groupFileRefs, savedImages, savedProbes, cacheVars, stopToken,
                   bakeResult, bakeRun, loopVars, bakeLocals, stitchLocals, hist>>

(***************************************************************************)
(* IncrementalLightBaker::ProcessScene:                                    *)
(* Impl::GenerateChartsAndUpdateScene, then Impl::GenerateBakingChunks.    *)
(***************************************************************************)
BeginProcessScene ==
    /\ pc = "initialized"
    /\ numLightmapCharts_' = 0
    /\ chunkIdx' = 1
    /\ pc' = "charts"
    /\ UNCHANGED <<inputVars, settings_, chunks_, sceneVars, fsVars, cacheVars,
                   stopToken, initResult, bakeResult, bakeRun, chartIdx, lightIdx,
                   groupIdx, bakingChunk, bakeLocals, stitchLocals, hist>>

\* numLightmapCharts_ += charts.size()
ChartCountNotUpdated(count, charts) == count

UpdatedChartCount(count, charts) == count + Len(charts)

\* One iteration of the loop over chunks_ of GenerateChartsAndUpdateScene.
GenerateChartsForChunk ==
    /\ pc = "charts"
    /\ chunkIdx <= Len(chunks_)
    /\ LET chunk == chunks_[chunkIdx]
           charts == GenerateLightmapCharts(geomCharts[chunk], numLightmapCharts_)
           refs == {<<chunk, g, GetLightProbeBakedDataFileName(settings_.outputDirectory_, chunk, g)>> :
                        g \in 0..(chunkGroups[chunk] - 1)}
       IN  /\ sceneCharts' = [sceneCharts EXCEPT ![chunk] = charts]
           /\ groupFileRefs' = groupFileRefs \cup refs
           /\ fsDirs' = fsDirs \cup {GetPath(r[3]) : r \in refs}
           /\ numLightmapCharts_' = UpdatedChartCount(numLightmapCharts_, charts)
    /\ chunkIdx' = chunkIdx + 1
    /\ UNCHANGED <<inputVars, settings_, chunks_, sceneLightmaps, giFileRef, fsFiles,
                   savedImages, savedProbes, cacheVars, stopToken, pc, initResult,
                   bakeResult, bakeRun, chartIdx, lightIdx, groupIdx, bakingChunk,
                   bakeLocals, stitchLocals, hist>>

\* The scene's lightmap list is reset and refilled, one name per chart.
SceneLightmapName(lightmapIndex) ==
    LET fileName == GetLightmapFileName(settings_.outputDirectory_, lightmapIndex)
        resourceName == GetResourceName(env.resourceDirs, fileName)
    IN  IF resourceName = <<>> THEN fileName ELSE resourceName

UpdateSceneLightmaps ==
    /\ pc = "charts"
    /\ chunkIdx > Len(chunks_)
    /\ sceneLightmaps' = [k \in 1..numLightmapCharts_ |-> SceneLightmapName(k - 1)]
    /\ chunkIdx' = 1
    /\ pc' = "vicinity"
    /\ UNCHANGED <<inputVars, settings_, chunks_, numLightmapCharts_, sceneCharts,
                   groupFileRefs, giFileRef, fsVars, cacheVars, stopToken, initResult,
                   bakeResult, bakeRun, chartIdx, lightIdx, groupIdx, bakingChunk,
                   bakeLocals, stitchLocals, hist>>

\* cache_->StoreChunkVicinity(chunk, vicinity): the entry under the key is replaced.
StoreChunkVicinity(cache, chunk, vicinity) ==
    [c \in DOMAIN cache \cup {chunk} |-> IF c = chunk THEN vicinity ELSE cache[c]]

\* One iteration of the loop of GenerateBakingChunks.
GenerateBakingChunk ==
    /\ pc = "vicinity"
    /\ chunkIdx <= Len(chunks_)
    /\ vicinityCache' = StoreChunkVicinity(vicinityCache, chunks_[chunkIdx],
                                           CreateBakedChunkVicinity(chunks_[chunkIdx]))
    /\ chunkIdx' = chunkIdx + 1
    /\ UNCHANGED <<inputVars, settings_, chunks_, numLightmapCharts_, sceneVars, fsVars,
                   directCache, lightmapCache, stopToken, pc, initResult, bakeResult,
                   bakeRun, chartIdx, lightIdx, groupIdx, bakingChunk, bakeLocals,
                   stitchLocals, hist>>

EndProcessScene ==
    /\ pc = "vicinity"
    /\ chunkIdx > Len(chunks_)
    /\ pc' = "processed"
    /\ chunkIdx' = 0
    /\ UNCHANGED <<inputVars, settings_, chunks_, numLightmapCharts_, sceneVars, fsVars,
                   cacheVars, stopToken, initResult, bakeResult, bakeRun, chartIdx,
                   lightIdx, groupIdx, bakingChunk, bakeLocals, stitchLocals, hist>>

\* The environment stops the token; nothing resets it.  The token is read by
\* Bake only, so a stop requested after the last Bake changes nothing.
StoppablePositions ==
    {"initialized", "charts", "vicinity", "processed", "direct_chunk", "direct_check",
     "direct_emission", "direct_light", "indirect_chunk", "indirect_probes",
     "indirect_check", "indirect_bake", "indirect_normalize", "indirect_filter_direct",
     "indirect_filter_indirect", "indirect_combine", "indirect_store", "probes_direct",
     "probes_save"}

RequestStop ==
    /\ ~stopToken
    /\ pc \in StoppablePositions
    /\ stopToken' = TRUE
    /\ UNCHANGED <<inputVars, settings_, chunks_, numLightmapCharts_, sceneVars, fsVars,
                   cacheVars, pc, initResult, bakeResult, bakeRun, loopVars, bakeLocals,
                   stitchLocals, hist>>

(***************************************************************************)
(* The tracer and the filters, as deterministic functions of their inputs. *)
(***************************************************************************)
IndirectSamples == 2

\* geometryBuffer.lightmapSize_ of the chart the direct loop is at.
DirectBufferSize == vicinityCache[bakingChunk].lightmapSize_

\* LightmapChartBakedDirect{ geometryBuffer.lightmapSize_ }: zeroed texels.
\* emission and lights record which contributions the buffer has received.
ReusedBakedDirect ==
    LET lightmapIndex == vicinityCache[bakingChunk].lightmaps_[chartIdx + 1]
    IN  IF lightmapIndex \in DOMAIN directCache
        THEN directCache[lightmapIndex]
        ELSE [directLight_ |-> [t \in BufferTexels(DirectBufferSize) |-> 0],
              emission |-> FALSE, lights |-> {}]

NewBakedDirect ==
    [directLight_ |-> [t \in BufferTexels(DirectBufferSize) |-> 0],
     emission |-> FALSE, lights |-> {}]

EmissionAt(lightmapIndex, t) == ((lightmapIndex + t) % 3) - 1

DirectAt(light, lightmapIndex, t) == ((light + lightmapIndex + 2 * t) % 3) - 1

BakeEmissionLight(direct, lightmapIndex) ==
    [direct EXCEPT !.directLight_ =
                       [t \in DOMAIN @ |-> @[t] + EmissionAt(lightmapIndex, t)],
                   !.emission = TRUE]

BakeDirectLightForCharts(direct, lightmapIndex, light) ==
    [direct EXCEPT !.directLight_ =
                       [t \in DOMAIN @ |-> @[t] + DirectAt(light, lightmapIndex, t)],
                   !.lights = @ \cup {light}]

\* The box kernel of the filters: each texel gathers the texels within
\* kernelRadius of it.
Gather(values, t, kernelRadius) ==
    SetSum(values, {u \in DOMAIN values : Abs(u - t) <= kernelRadius})

FilterDirectLight(direct, kernelRadius) ==
    [direct EXCEPT !.directLight_ =
                       [t \in DOMAIN @ |-> Gather(direct.directLight_, t, kernelRadius)]]

FilterIndirectLight(indirect, kernelRadius) ==
    LET rgb == [t \in DOMAIN indirect |-> indirect[t].rgb]
    IN  [t \in DOMAIN indirect |-> [indirect[t] EXCEPT !.rgb = Gather(rgb, t, kernelRadius)]]

\* geometryBuffer.lightmapSize_ of the chart the indirect loop is at.
IndirectBufferSizeOneLess == vicinityCache[bakingChunk].lightmapSize_ - 1

IndirectBufferSize == vicinityCache[bakingChunk].lightmapSize_

\* LightmapChartBakedIndirect{ geometryBuffer.lightmapSize_ }: zeroed colour
\* and weight.
NewBakedIndirect == [t \in BufferTexels(IndirectBufferSize) |-> [rgb |-> 0, w |-> 0]]

\* What the rays of texel t gather from the direct light of the table.  An
\* entry of the table is a pointer into the cache: it reads the buffer as the
\* cache holds it now.
TableLight(table, cache, t) ==
    SetSum([L \in table |-> cache[L].directLight_[t]], table)

ProbesLight(probes) ==
    SumTo([k \in 1..Len(probes) |-> probes[k].value], Len(probes))

BakeIndirectLightForCharts(indirect, table, cache, probes) ==
    [t \in DOMAIN indirect |->
        [rgb |-> indirect[t].rgb + TableLight(table, cache, t) + ProbesLight(probes) - 3,
         w |-> indirect[t].w + IndirectSamples]]

\* LightmapChartBakedIndirect::NormalizeLight
NormalizeLight(indirect) ==
    [t \in DOMAIN indirect |->
        IF indirect[t].w > 0
        THEN [rgb |-> indirect[t].rgb \div indirect[t].w, w |-> 1]
        ELSE indirect[t]]

\* LightProbeCollectionBakedData::Resize: a vector resize.
ResizeProbes(probes, size) ==
    [k \in 1..size |-> IF k <= Len(probes) THEN probes[k] ELSE [value |-> 0, parts |-> {}]]

BakeIndirectLightForLightProbes(probes, table, cache, chunk) ==
    [k \in 1..Len(probes) |->
        [value |-> probes[k].value + TableLight(table, cache, 1) + 1,
         parts |-> probes[k].parts \cup {<<"indirect", chunk, 0>>}]]

BakeDirectLightForLightProbes(probes, chunk, light) ==
    [k \in 1..Len(probes) |->
        [value |-> probes[k].value + light,
         parts |-> probes[k].parts \cup {<<"direct", chunk, light>>}]]

VectorMax(a, b) == IF a > b THEN a ELSE b

\* cache_->StoreDirectLight / StoreLightmap: the entry under the key is replaced.
StoreByIndex(cache, lightmapIndex, value) ==
    [L \in DOMAIN cache \cup {lightmapIndex} |->
        IF L = lightmapIndex THEN value ELSE cache[L]]

Vicinity == vicinityCache[bakingChunk]

(***************************************************************************)
(* IncrementalLightBaker::Bake, first half: Impl::BakeDirectCharts.        *)
(***************************************************************************)
NewBakeHist ==
    [hist EXCEPT !.storeDirect = <<>>, !.storeLightmap = <<>>, !.indirectSteps = 0,
                 !.probeBakes = 0, !.probeSaves = 0, !.failedSaves = 0,
                 !.stopObserved = "none"]

\* The caller enters Bake after ProcessScene.
Bake ==
    /\ pc = "processed"
    /\ pc' = "direct_chunk"
    /\ bakeRun' = bakeRun + 1
    /\ bakeResult' = "running"
    /\ chunkIdx' = 1
    /\ hist' = NewBakeHist
    /\ UNCHANGED <<inputVars, settings_, chunks_, numLightmapCharts_, sceneVars, fsVars,
                   cacheVars, stopToken, initResult, chartIdx, lightIdx, groupIdx,
                   bakingChunk, bakeLocals, stitchLocals>>

\* The caller enters Bake again after a Bake that returned true.
BakeAgain ==
    /\ pc = "baked"
    /\ bakeResult = "ok"
    /\ bakeRun < MaxBakeRuns
    /\ pc' = "direct_chunk"
    /\ bakeRun' = bakeRun + 1
    /\ bakeResult' = "running"
    /\ chunkIdx' = 1
    /\ hist' = NewBakeHist
    /\ UNCHANGED <<inputVars, settings_, chunks_, numLightmapCharts_, sceneVars, fsVars,
                   cacheVars, stopToken, initResult, chartIdx, lightIdx, groupIdx,
                   bakingChunk, bakeLocals, stitchLocals>>

\* for (chunk : chunks_): LoadChunkVicinity, or the loop ends, BakeDirectCharts
\* returns true and Bake enters BakeIndirectAndFilter, which constructs its
\* locals.
DirectLoadChunk ==
    /\ pc = "direct_chunk"
    /\ IF chunkIdx <= Len(chunks_)
       THEN /\ bakingChunk' = chunks_[chunkIdx]
            /\ chartIdx' = 0
            /\ IF chunks_[chunkIdx] \in DOMAIN vicinityCache
               THEN pc' = "direct_check" /\ hist' = hist
               ELSE /\ pc' = "nullDereference"
                    /\ hist' = [hist EXCEPT !.nullLoads = @ \cup {<<"vicinity", chunks_[chunkIdx]>>}]
            /\ UNCHANGED <<chunkIdx, lightProbesBakedData>>
       ELSE /\ pc' = "indirect_chunk"
            /\ chunkIdx' = 1
            /\ bakingChunk' = NoChunk
            /\ lightProbesBakedData' = <<>>
            /\ UNCHANGED <<chartIdx, hist>>
    /\ UNCHANGED <<inputVars, settings_, chunks_, numLightmapCharts_, sceneVars, fsVars,
                   cacheVars, stopToken, initResult, bakeResult, bakeRun, lightIdx,
                   groupIdx, bakedDirect, directRef, bakedDirectLightmaps,
                   bakedIndirect, bakedLightmap, stitchLocals>>

\* The condition of the lightmap loop of BakeDirectCharts.
DirectLoopSkipsLast == chartIdx + 1 < Len(Vicinity.lightmaps_)

DirectLoopContinues == chartIdx < Len(Vicinity.lightmaps_)

\* Where Bake goes when BakeDirectCharts returns false: it returns false.
AfterDirectStopContinue == "indirect_chunk"

AfterDirectStop == "baked"

\* The head of the lightmap loop: the stop check, then the zeroed buffer.
DirectCheck ==
    /\ pc = "direct_check"
    /\ IF DirectLoopContinues
       THEN IF stopToken
            THEN /\ pc' = AfterDirectStop
                 /\ bakeResult' = IF AfterDirectStop = "baked" THEN "cancelled" ELSE bakeResult
                 /\ chunkIdx' = IF AfterDirectStop = "baked" THEN chunkIdx ELSE 1
                 /\ hist' = [hist EXCEPT !.stopObserved = "direct"]
                 /\ UNCHANGED <<bakedDirect>>
            ELSE /\ pc' = "direct_emission"
                 /\ bakedDirect' = NewBakedDirect
                 /\ UNCHANGED <<bakeResult, hist, chunkIdx>>
       ELSE /\ pc' = "direct_chunk"
            /\ chunkIdx' = chunkIdx + 1
            /\ UNCHANGED <<bakeResult, hist, bakedDirect>>
    /\ UNCHANGED <<inputVars, settings_, chunks_, numLightmapCharts_, sceneVars, fsVars,
                   cacheVars, stopToken, initResult, bakeRun, chartIdx, lightIdx,
                   groupIdx, bakingChunk, directRef, bakedDirectLightmaps, bakedIndirect,
                   bakedLightmap, lightProbesBakedData, stitchLocals>>

DirectEmission ==
    /\ pc = "direct_emission"
    /\ bakedDirect' = BakeEmissionLight(bakedDirect, Vicinity.lightmaps_[chartIdx + 1])
    /\ lightIdx' = 1
    /\ pc' = "direct_light"
    /\ UNCHANGED <<inputVars, settings_, chunks_, numLightmapCharts_, sceneVars, fsVars,
                   cacheVars, stopToken, initResult, bakeResult, bakeRun, chunkIdx,
                   chartIdx, groupIdx, bakingChunk, directRef, bakedDirectLightmaps,
                   bakedIndirect, bakedLightmap, lightProbesBakedData, stitchLocals, hist>>

\* The loop over bakedLights_ has ended.
DirectLightsDoneEarly == TRUE

DirectLightsDone == lightIdx > Vicinity.bakedLights_

\* One iteration of the loop over bakedLights_.
DirectLight ==
    /\ pc = "direct_light"
    /\ ~DirectLightsDone
    /\ bakedDirect' = BakeDirectLightForCharts(bakedDirect, Vicinity.lightmaps_[chartIdx + 1], lightIdx)
    /\ lightIdx' = lightIdx + 1
    /\ UNCHANGED <<inputVars, settings_, chunks_, numLightmapCharts_, sceneVars, fsVars,
                   cacheVars, stopToken, pc, initResult, bakeResult, bakeRun, chunkIdx,
                   chartIdx, groupIdx, bakingChunk, directRef, bakedDirectLightmaps,
                   bakedIndirect, bakedLightmap, lightProbesBakedData, stitchLocals, hist>>

\* The loop over the lights has ended: StoreDirectLight moves the buffer into
\* the cache.
DirectStore ==
    /\ pc = "direct_light"
    /\ DirectLightsDone
    /\ LET lightmapIndex == Vicinity.lightmaps_[chartIdx + 1]
       IN  /\ directCache' = StoreByIndex(directCache, lightmapIndex, bakedDirect)
           /\ hist' = [hist EXCEPT !.storeDirect = Append(@, lightmapIndex),
                                   !.storedDirect = StoreByIndex(@, lightmapIndex, bakedDirect.directLight_)]
    /\ bakedDirect' = NoBuffer
    /\ chartIdx' = chartIdx + 1
    /\ pc' = "direct_check"
    /\ UNCHANGED <<inputVars, settings_, chunks_, numLightmapCharts_, sceneVars, fsVars,
                   vicinityCache, lightmapCache, stopToken, initResult, bakeResult,
                   bakeRun, chunkIdx, lightIdx, groupIdx, bakingChunk, directRef,
                   bakedDirectLightmaps, bakedIndirect, bakedLightmap,
                   lightProbesBakedData, stitchLocals>>

(***************************************************************************)
(* IncrementalLightBaker::Bake, second half: Impl::BakeIndirectAndFilter.  *)
(***************************************************************************)
\* The lightmap indices of the ray-traced geometries of the vicinity.
RequiredWithSentinel(vicinity) == vicinity.raytracerGeometries

\* Every direct buffer is loaded, whatever the geometries reference.
RequiredWholeSet(vicinity) == 0..(numLightmapCharts_ - 1)

RequiredDirectLightmaps(vicinity) ==
    {L \in vicinity.raytracerGeometries : L # M_MAX_UNSIGNED}

CacheSnapshot ==
    [direct |-> [L \in DOMAIN directCache |-> directCache[L].directLight_],
     lightmaps |-> lightmapCache]

\* for (chunk : chunks_): the vicinity and the required direct lightmaps are
\* loaded, or the loop ends and BakeIndirectAndFilter, and Bake, return true.
IndirectLoadChunk ==
    /\ pc = "indirect_chunk"
    /\ IF chunkIdx <= Len(chunks_)
       THEN LET chunk == chunks_[chunkIdx] IN
            /\ bakingChunk' = chunk
            /\ IF chunk \in DOMAIN vicinityCache
               THEN LET required == RequiredDirectLightmaps(vicinityCache[chunk]) IN
                    /\ pc' = "indirect_probes"
                    /\ bakedDirectLightmaps' = required \cap DOMAIN directCache
                    /\ hist' = [hist EXCEPT !.indirectSteps = @ + 1,
                                            !.tableLoads = required,
                                            !.nullLoads = @ \cup {<<"direct", L>> : L \in required \ DOMAIN directCache}]
               ELSE /\ pc' = "nullDereference"
                    /\ bakedDirectLightmaps' = {}
                    /\ hist' = [hist EXCEPT !.indirectSteps = @ + 1,
                                            !.nullLoads = @ \cup {<<"vicinity", chunk>>}]
            /\ UNCHANGED <<bakeResult, chunkIdx>>
       ELSE /\ pc' = "baked"
            /\ bakeResult' = "ok"
            /\ bakingChunk' = NoChunk
            /\ bakedDirectLightmaps' = {}
            /\ chunkIdx' = 0
            /\ hist' = IF bakeRun = 1 THEN [hist EXCEPT !.firstBake = CacheSnapshot] ELSE hist
    /\ UNCHANGED <<inputVars, settings_, chunks_, numLightmapCharts_, sceneVars, fsVars,
                   cacheVars, stopToken, initResult, bakeRun, chartIdx, lightIdx,
                   groupIdx, bakedDirect, directRef, bakedIndirect, bakedLightmap,
                   lightProbesBakedData, stitchLocals>>

\* The probe storage is resized and the indirect light of the probes baked.
IndirectProbes ==
    /\ pc = "indirect_probes"
    /\ lightProbesBakedData' =
          BakeIndirectLightForLightProbes(ResizeProbes(lightProbesBakedData, Vicinity.numProbes),
                                          bakedDirectLightmaps, directCache, bakingChunk)
    /\ chartIdx' = 0
    /\ pc' = "indirect_check"
    /\ hist' = [hist EXCEPT !.indirectSteps = @ + 1, !.probeBakes = @ + 1]
    /\ UNCHANGED <<inputVars, settings_, chunks_, numLightmapCharts_, sceneVars, fsVars,
                   cacheVars, stopToken, initResult, bakeResult, bakeRun, chunkIdx,
                   lightIdx, groupIdx, bakingChunk, bakedDirect, directRef,
                   bakedDirectLightmaps, bakedIndirect, bakedLightmap, stitchLocals>>

\* The head of the lightmap loop: the stop check, then the chart's direct
\* light is loaded (a shared pointer to the cached buffer) and the indirect
\* buffer allocated.
IndirectCheck ==
    /\ pc = "indirect_check"
    /\ IF chartIdx < Len(Vicinity.lightmaps_)
       THEN IF stopToken
            THEN /\ pc' = "baked"
                 /\ bakeResult' = "cancelled"
                 /\ hist' = [hist EXCEPT !.stopObserved = "indirect"]
                 /\ UNCHANGED <<directRef, bakedIndirect, lightIdx>>
            ELSE LET lightmapIndex == Vicinity.lightmaps_[chartIdx + 1] IN
                 /\ directRef' = lightmapIndex
                 /\ bakedIndirect' = NewBakedIndirect
                 /\ IF lightmapIndex \in DOMAIN directCache
                    THEN /\ pc' = "indirect_bake"
                         /\ hist' = [hist EXCEPT !.indirectSteps = @ + 1,
                                                 !.chartSteps = <<"allocate">>]
                    ELSE /\ pc' = "nullDereference"
                         /\ hist' = [hist EXCEPT !.indirectSteps = @ + 1,
                                                 !.nullLoads = @ \cup {<<"direct", lightmapIndex>>}]
                 /\ UNCHANGED <<bakeResult, lightIdx>>
       ELSE /\ pc' = "probes_direct"
            /\ lightIdx' = 1
            /\ UNCHANGED <<bakeResult, hist, directRef, bakedIndirect>>
    /\ UNCHANGED <<inputVars, settings_, chunks_, numLightmapCharts_, sceneVars, fsVars,
                   cacheVars, stopToken, initResult, bakeRun, chunkIdx, chartIdx,
                   groupIdx, bakingChunk, bakedDirect, bakedDirectLightmaps,
                   bakedLightmap, lightProbesBakedData, stitchLocals>>

IndirectBake ==
    /\ pc = "indirect_bake"
    /\ bakedIndirect' = BakeIndirectLightForCharts(bakedIndirect, bakedDirectLightmaps,
                                                   directCache, lightProbesBakedData)
    /\ pc' = "indirect_normalize"
    /\ hist' = [hist EXCEPT !.indirectSteps = @ + 1, !.chartSteps = Append(@, "bake")]
    /\ UNCHANGED <<inputVars, settings_, chunks_, numLightmapCharts_, sceneVars, fsVars,
                   cacheVars, stopToken, initResult, bakeResult, bakeRun, loopVars,
                   bakedDirect, directRef, bakedDirectLightmaps, bakedLightmap,
                   lightProbesBakedData, stitchLocals>>

\* The lightmap loop without line 335: the bake result goes to the filters
\* as it is.
IndirectNormalizeLeftOut ==
    /\ pc = "indirect_normalize"
    /\ bakedIndirect' = bakedIndirect
    /\ pc' = "indirect_filter_direct"
    /\ hist' = [hist EXCEPT !.indirectSteps = @ + 1]
    /\ UNCHANGED <<inputVars, settings_, chunks_, numLightmapCharts_, sceneVars, fsVars,
                   cacheVars, stopToken, initResult, bakeResult, bakeRun, loopVars,
                   bakedDirect, directRef, bakedDirectLightmaps, bakedLightmap,
                   lightProbesBakedData, stitchLocals>>

IndirectNormalize ==
    /\ pc = "indirect_normalize"
    /\ bakedIndirect' = NormalizeLight(bakedIndirect)
    /\ pc' = "indirect_filter_direct"
    /\ hist' = [hist EXCEPT !.indirectSteps = @ + 1, !.chartSteps = Append(@, "normalize"),
                            !.normalized = NormalizeLight(bakedIndirect)]
    /\ UNCHANGED <<inputVars, settings_, chunks_, numLightmapCharts_, sceneVars, fsVars,
                   cacheVars, stopToken, initResult, bakeResult, bakeRun, loopVars,
                   bakedDirect, directRef, bakedDirectLightmaps, bakedLightmap,
                   lightProbesBakedData, stitchLocals>>

\* A filter that runs whenever either radius is set.
FilterEnabledByEitherRadius ==
    settings_.directRadius > 0 \/ settings_.indirectRadius > 0

\* settings_.directFilter_.kernelRadius_ > 0
DirectFilterEnabled == settings_.directRadius > 0

\* settings_.indirectFilter_.kernelRadius_ > 0
IndirectFilterEnabled == settings_.indirectRadius > 0

\* FilterDirectLight(*bakedDirect, ...) writes through the shared pointer that
\* LoadDirectLight returned: the buffer filtered is the cached one.
FilteredDirectCache ==
    IF DirectFilterEnabled
    THEN [directCache EXCEPT ![directRef] = FilterDirectLight(@, settings_.directRadius)]
    ELSE directCache

IndirectFilterDirect ==
    /\ pc = "indirect_filter_direct"
    /\ directCache' = FilteredDirectCache
    /\ pc' = "indirect_filter_indirect"
    /\ hist' = [hist EXCEPT !.indirectSteps = @ + 1,
                            !.chartSteps = IF DirectFilterEnabled
                                            THEN Append(@, "filterDirect") ELSE @]
    /\ UNCHANGED <<inputVars, settings_, chunks_, numLightmapCharts_, sceneVars, fsVars,
                   vicinityCache, lightmapCache, stopToken, initResult, bakeResult,
                   bakeRun, loopVars, bakeLocals, stitchLocals>>

IndirectFilterIndirect ==
    /\ pc = "indirect_filter_indirect"
    /\ bakedIndirect' = IF IndirectFilterEnabled
                        THEN FilterIndirectLight(bakedIndirect, settings_.indirectRadius)
                        ELSE bakedIndirect
    /\ pc' = "indirect_combine"
    /\ hist' = [hist EXCEPT !.indirectSteps = @ + 1,
                            !.chartSteps = IF IndirectFilterEnabled
                                            THEN Append(@, "filterIndirect") ELSE @]
    /\ UNCHANGED <<inputVars, settings_, chunks_, numLightmapCharts_, sceneVars, fsVars,
                   cacheVars, stopToken, initResult, bakeResult, bakeRun, loopVars,
                   bakedDirect, directRef, bakedDirectLightmaps, bakedLightmap,
                   lightProbesBakedData, stitchLocals>>

\* BakedLightmap(lightmapSize_): each texel is the clamped direct light plus
\* the clamped indirect light.
CombineLightUnclampedIndirect(direct, indirect) ==
    [t \in Texels |-> VectorMax(0, direct.directLight_[t]) + indirect[t].rgb]

CombineLight(direct, indirect) ==
    [t \in Texels |-> VectorMax(0, direct.directLight_[t]) + VectorMax(0, indirect[t].rgb)]

\* directLight_[i] and light_[i] exist for every i the combine loop reads:
\* i < bakedLightmap.lightmap_.size(), the configured number of texels.
CombineInBounds(direct, indirect) ==
    /\ Texels \subseteq DOMAIN direct.directLight_
    /\ Texels \subseteq DOMAIN indirect

IndirectCombine ==
    /\ pc = "indirect_combine"
    /\ IF CombineInBounds(directCache[directRef], bakedIndirect)
       THEN /\ bakedLightmap' = CombineLight(directCache[directRef], bakedIndirect)
            /\ pc' = "indirect_store"
       ELSE /\ pc' = "outOfBounds"
            /\ UNCHANGED bakedLightmap
    /\ hist' = [hist EXCEPT !.indirectSteps = @ + 1, !.chartSteps = Append(@, "combine")]
    /\ UNCHANGED <<inputVars, settings_, chunks_, numLightmapCharts_, sceneVars, fsVars,
                   cacheVars, stopToken, initResult, bakeResult, bakeRun, loopVars,
                   bakedDirect, directRef, bakedDirectLightmaps, bakedIndirect,
                   lightProbesBakedData, stitchLocals>>

IndirectStore ==
    /\ pc = "indirect_store"
    /\ lightmapCache' = StoreByIndex(lightmapCache, directRef, bakedLightmap)
    /\ hist' = [hist EXCEPT !.indirectSteps = @ + 1, !.storeLightmap = Append(@, directRef),
                            !.chartSteps = Append(@, "store")]
    /\ bakedLightmap' = NoBuffer
    /\ bakedIndirect' = NoBuffer
    /\ directRef' = M_MAX_UNSIGNED
    /\ chartIdx' = chartIdx + 1
    /\ pc' = "indirect_check"
    /\ UNCHANGED <<inputVars, settings_, chunks_, numLightmapCharts_, sceneVars, fsVars,
                   vicinityCache, directCache, stopToken, initResult, bakeResult, bakeRun,
                   chunkIdx, lightIdx, groupIdx, bakingChunk, bakedDirect,
                   bakedDirectLightmaps, lightProbesBakedData, stitchLocals>>

\* The condition of the loop over bakedLights_ for the probes.
ProbeLightsSkipLast == lightIdx < Vicinity.bakedLights_

ProbeLightsRemain == lightIdx <= Vicinity.bakedLights_

\* One iteration of the loop over bakedLights_ for the probes, or its end.
ProbesDirect ==
    /\ pc = "probes_direct"
    /\ IF ProbeLightsRemain
       THEN /\ lightProbesBakedData' = BakeDirectLightForLightProbes(lightProbesBakedData, bakingChunk, lightIdx)
            /\ lightIdx' = lightIdx + 1
            /\ hist' = [hist EXCEPT !.indirectSteps = @ + 1, !.probeBakes = @ + 1]
            /\ UNCHANGED <<pc, groupIdx>>
       ELSE /\ pc' = "probes_save"
            /\ groupIdx' = 0
            /\ UNCHANGED <<lightProbesBakedData, lightIdx, hist>>
    /\ UNCHANGED <<inputVars, settings_, chunks_, numLightmapCharts_, sceneVars, fsVars,
                   cacheVars, stopToken, initResult, bakeResult, bakeRun, chunkIdx,
                   chartIdx, bakingChunk, bakedDirect, directRef, bakedDirectLightmaps,
                   bakedIndirect, bakedLightmap, stitchLocals>>

\* A failed save is logged and the loop goes on with the next group.
GroupIndexAfterFailedSaveEnds(saved) ==
    IF saved THEN groupIdx + 1 ELSE Vicinity.numUniqueLightProbes_

NextGroupIndex(saved) == groupIdx + 1

\* The baked data of the probes of one group.
GroupProbes(probes, groupIndex) ==
    [k \in 1..ProbesPerGroup |-> probes[groupIndex * ProbesPerGroup + k]]

\* One iteration of the save loop: SaveLightProbesBakedData succeeds or
\* fails, and a failure is logged; or the loop ends and the chunk is done.
ProbesSave ==
    /\ pc = "probes_save"
    /\ IF groupIdx < Vicinity.numUniqueLightProbes_
       THEN /\ \E saved \in BOOLEAN :
                 /\ IF saved
                    THEN /\ savedProbes' = StoreByIndex(savedProbes, <<bakingChunk, groupIdx>>,
                                                        GroupProbes(lightProbesBakedData, groupIdx))
                         /\ hist' = [hist EXCEPT !.indirectSteps = @ + 1, !.probeSaves = @ + 1]
                    ELSE /\ savedProbes' = savedProbes
                         /\ hist' = [hist EXCEPT !.indirectSteps = @ + 1, !.probeSaves = @ + 1,
                                                 !.failedSaves = @ + 1]
                 /\ groupIdx' = NextGroupIndex(saved)
            /\ UNCHANGED <<pc, chunkIdx>>
       ELSE /\ pc' = "indirect_chunk"
            /\ chunkIdx' = chunkIdx + 1
            /\ UNCHANGED <<savedProbes, hist, groupIdx>>
    /\ UNCHANGED <<inputVars, settings_, chunks_, numLightmapCharts_, sceneVars, fsDirs,
                   fsFiles, savedImages, cacheVars, stopToken, initResult, bakeResult,
                   bakeRun, chartIdx, lightIdx, bakingChunk, bakeLocals, stitchLocals>>

(***************************************************************************)
(* IncrementalLightBaker::CommitScene: Impl::StitchAndSaveImages.          *)
(***************************************************************************)
\* StitchLightmapSeams: each pass blends every texel with the next one
\* across the seam; the alpha written is 1.
RECURSIVE StitchLightmapSeams(_, _)
StitchLightmapSeams(lightmap, numIterations) ==
    IF numIterations = 0 THEN [t \in Texels |-> [rgb |-> lightmap[t], a |-> 1]]
    ELSE LET prev == StitchLightmapSeams(lightmap, numIterations - 1)
         IN  [t \in Texels |->
                [rgb |-> (prev[t].rgb + prev[(t % NumTexels) + 1].rgb) \div 2, a |-> 1]]

\* Color::LinearToGamma, on the integer channel: the integer square root.
LinearToGamma(v) ==
    IF v <= 0 THEN 0 ELSE MaxOf({r \in 0..v : r * r <= v})

\* color.r_ *= multiplier, where multiplier = 1.0f / 2.0f, on a channel
\* scaled by 4.
PixelColor(texel) == (4 * LinearToGamma(texel.rgb)) \div 2

\* The caller enters CommitScene after a Bake that returned true.
CommitScene ==
    /\ pc = "baked"
    /\ bakeResult = "ok"
    /\ buffer' = [t \in Texels |-> [rgb |-> 0, a |-> 0]]
    /\ IF env.imageOk
       THEN /\ lightmapImage' = [t \in Texels |-> 0]
            /\ pc' = "stitch_chunk"
            /\ chunkIdx' = 1
       ELSE /\ pc' = "committed"
            /\ UNCHANGED <<lightmapImage, chunkIdx>>
    /\ UNCHANGED <<inputVars, settings_, chunks_, numLightmapCharts_, sceneVars, fsVars,
                   cacheVars, stopToken, initResult, bakeResult, bakeRun, chartIdx,
                   lightIdx, groupIdx, bakingChunk, bakeLocals, hist>>

StitchLoadChunk ==
    /\ pc = "stitch_chunk"
    /\ IF chunkIdx <= Len(chunks_)
       THEN /\ bakingChunk' = chunks_[chunkIdx]
            /\ chartIdx' = 0
            /\ IF chunks_[chunkIdx] \in DOMAIN vicinityCache
               THEN pc' = "stitch_blend" /\ hist' = hist
               ELSE /\ pc' = "nullDereference"
                    /\ hist' = [hist EXCEPT !.nullLoads = @ \cup {<<"vicinity", chunks_[chunkIdx]>>}]
       ELSE /\ pc' = "committed"
            /\ bakingChunk' = NoChunk
            /\ UNCHANGED <<chartIdx, hist>>
    /\ UNCHANGED <<inputVars, settings_, chunks_, numLightmapCharts_, sceneVars, fsVars,
                   cacheVars, stopToken, initResult, bakeResult, bakeRun, chunkIdx,
                   lightIdx, groupIdx, bakeLocals, stitchLocals>>

\* The seams test of line 417 left out: the solver runs whenever iterations
\* are configured.
StitchesWhenConfigured(hasSeams) == settings_.numIterations > 0

\* numIterations_ > 0 && !geometryBuffer.seams_.empty()
StitchesSeams(hasSeams) == settings_.numIterations > 0 /\ hasSeams

StitchLoopSkipsLast == chartIdx + 1 < Len(Vicinity.lightmaps_)

\* i < chunkVicinity->lightmaps_.size()
StitchLoopContinues == chartIdx < Len(Vicinity.lightmaps_)

\* The head of the lightmap loop: LoadLightmap, then the seams are stitched
\* into the blend buffer or the lightmap is copied into it.
StitchBlend ==
    /\ pc = "stitch_blend"
    /\ IF StitchLoopContinues
       THEN LET lightmapIndex == Vicinity.lightmaps_[chartIdx + 1] IN
            IF lightmapIndex \in DOMAIN lightmapCache
            THEN /\ buffer' =
                      IF StitchesSeams(Vicinity.seams_[chartIdx + 1])
                      THEN StitchLightmapSeams(lightmapCache[lightmapIndex], settings_.numIterations)
                      ELSE [t \in Texels |-> [rgb |-> lightmapCache[lightmapIndex][t], a |-> 1]]
                 /\ hist' = [hist EXCEPT !.loadLightmap = Append(@, lightmapIndex),
                                         !.stitchCalls =
                                            IF StitchesSeams(Vicinity.seams_[chartIdx + 1])
                                            THEN Append(@, lightmapIndex) ELSE @]
                 /\ pc' = "stitch_image"
                 /\ UNCHANGED chunkIdx
            ELSE /\ pc' = "nullDereference"
                 /\ hist' = [hist EXCEPT !.loadLightmap = Append(@, lightmapIndex),
                                         !.nullLoads = @ \cup {<<"lightmap", lightmapIndex>>}]
                 /\ UNCHANGED <<buffer, chunkIdx>>
       ELSE /\ pc' = "stitch_chunk"
            /\ chunkIdx' = chunkIdx + 1
            /\ UNCHANGED <<buffer, hist>>
    /\ UNCHANGED <<inputVars, settings_, chunks_, numLightmapCharts_, sceneVars, fsVars,
                   cacheVars, stopToken, initResult, bakeResult, bakeRun, chartIdx,
                   lightIdx, groupIdx, bakingChunk, bakeLocals, lightmapImage>>

\* Every texel written into the first row: y is left out.
PixelOfFirstRow(i, geometryLightmapSize) == i % geometryLightmapSize

\* SetPixel(x, y, color) for texel i, with x = i % lightmapSize_ and
\* y = i / lightmapSize_ of the geometry buffer, on an image LightmapSize wide.
PixelOf(i, geometryLightmapSize) ==
    (i \div geometryLightmapSize) * LightmapSize + (i % geometryLightmapSize)

GenerateImage(image, blend, geometryLightmapSize) ==
    [p \in DOMAIN image |->
        LET writers == {i \in 0..(NumTexels - 1) : PixelOf(i, geometryLightmapSize) = p - 1}
        IN  IF writers = {} THEN image[p] ELSE PixelColor(blend[MaxOf(writers) + 1])]

StitchImage ==
    /\ pc = "stitch_image"
    /\ lightmapImage' = GenerateImage(lightmapImage, buffer, Vicinity.lightmapSize_)
    /\ pc' = "stitch_save"
    /\ UNCHANGED <<inputVars, settings_, chunks_, numLightmapCharts_, sceneVars, fsVars,
                   cacheVars, stopToken, initResult, bakeResult, bakeRun, loopVars,
                   bakeLocals, buffer, hist>>

StitchSave ==
    /\ pc = "stitch_save"
    /\ LET fileName == GetLightmapFileName(settings_.outputDirectory_, Vicinity.lightmaps_[chartIdx + 1])
       IN  /\ fsDirs' = fsDirs \cup {GetPath(fileName)}
           \* the result of SaveFile is not looked at
           /\ IF env.imageSaveOk
              THEN /\ fsFiles' = fsFiles \cup {fileName}
                   /\ savedImages' = StoreByIndex(savedImages, fileName, lightmapImage)
              ELSE UNCHANGED <<fsFiles, savedImages>>
           /\ hist' = [hist EXCEPT !.saveImage = Append(@, fileName)]
    /\ chartIdx' = chartIdx + 1
    /\ pc' = "stitch_blend"
    /\ UNCHANGED <<inputVars, settings_, chunks_, numLightmapCharts_, sceneVars,
                   savedProbes, cacheVars, stopToken, initResult, bakeResult, bakeRun,
                   chunkIdx, lightIdx, groupIdx, bakingChunk, bakeLocals, stitchLocals>>

(***************************************************************************)
(* The pipeline.                                                           *)
(***************************************************************************)
Next ==
    \/ Initialize
    \/ BeginProcessScene
    \/ GenerateChartsForChunk
    \/ UpdateSceneLightmaps
    \/ GenerateBakingChunk
    \/ EndProcessScene
    \/ RequestStop
    \/ Bake
    \/ DirectLoadChunk
    \/ DirectCheck
    \/ DirectEmission
    \/ DirectLight
    \/ DirectStore
    \/ IndirectLoadChunk
    \/ IndirectProbes
    \/ IndirectCheck
    \/ IndirectBake
    \/ IndirectNormalize
    \/ IndirectFilterDirect
    \/ IndirectFilterIndirect
    \/ IndirectCombine
    \/ IndirectStore
    \/ ProbesDirect
    \/ ProbesSave
    \/ CommitScene
    \/ StitchLoadChunk
    \/ StitchBlend
    \/ StitchImage
    \/ StitchSave

Spec == Init /\ [][Next]_vars

\* The pipeline with Bake called up to MaxBakeRuns times.
NextRebake == Next \/ BakeAgain

SpecRebake == Init /\ [][NextRebake]_vars

(***************************************************************************)
(* The locality sort on its own: Initialize's sort applied to the chunks   *)
(* of a set and to the chunks of the same set translated, each in the      *)
(* order its collector returns them.                                       *)
(***************************************************************************)
SortChunkCoords == {<<x, 0, z>> : x \in {0, 1}, z \in {0, 1024}}

SortOffsets == {<<-3, 2, 5>>, <<7, 0, -1>>}

Translate(chunk, offset) ==
    <<chunk[1] + offset[1], chunk[2] + offset[2], chunk[3] + offset[3]>>

Orders(S) == {s \in [1..Cardinality(S) -> S] : Range(s) = S}

SortInit ==
    /\ InitWith({{}}, {GoodEnv},
                {[outputDirectory_ |-> <<"data/", "scene">>, directRadius |-> 0,
                  indirectRadius |-> 0, numIterations |-> 0]})
    /\ \E S \in {T \in SUBSET SortChunkCoords : Cardinality(T) \in 1..MaxSortLen} :
          sortInput \in Orders(S)
    /\ sortOffset \in SortOffsets
    /\ sortTranslated \in Orders({Translate(c, sortOffset) : c \in Range(sortInput)})
    /\ sortedInput = <<>>
    /\ sortedTranslated = <<>>

pipelineVars == <<collectorChunks, geomCharts, chunkLights, chunkGroups, env, settings_,
                  chunks_, numLightmapCharts_, sceneVars, fsVars, cacheVars, stopToken,
                  pc, initResult, bakeResult, bakeRun, loopVars, bakeLocals,
                  stitchLocals, hist>>

SortInputChunks ==
    /\ sortedInput = <<>>
    /\ sortInput # <<>>
    /\ sortedInput' = SortChunks(sortInput)
    /\ UNCHANGED <<pipelineVars, sortInput, sortOffset, sortTranslated, sortedTranslated>>

SortTranslatedChunks ==
    /\ sortedTranslated = <<>>
    /\ sortTranslated # <<>>
    /\ sortedTranslated' = SortChunks(sortTranslated)
    /\ UNCHANGED <<pipelineVars, sortInput, sortOffset, sortTranslated, sortedInput>>

SortNext == SortInputChunks \/ SortTranslatedChunks

SortSpec == SortInit /\ [][SortNext]_vars

(***************************************************************************)
(* Properties.                                                             *)
(***************************************************************************)
DirectPositions == {"direct_chunk", "direct_check", "direct_emission", "direct_light"}

IndirectPositions ==
    {"indirect_chunk", "indirect_probes", "indirect_check", "indirect_bake",
     "indirect_normalize", "indirect_filter_direct", "indirect_filter_indirect",
     "indirect_combine", "indirect_store", "probes_direct", "probes_save"}

StitchPositions == {"stitch_chunk", "stitch_blend", "stitch_image", "stitch_save"}

AllLightmaps == 0..(numLightmapCharts_ - 1)

\* The lightmaps of the chunks before position p of chunks_.
LightmapsBefore(p) ==
    SumTo([q \in 1..Len(chunks_) |-> Len(sceneCharts[chunks_[q]])], p - 1)

\* The chunk whose geometries own lightmap L.
Owner(L) == CHOOSE c \in collectorChunks : L \in Range(sceneCharts[c])

\* C1: a direct-light buffer is never mutated after it is stored: whatever
\* the direct filter radius, the cached direct buffer of every lightmap has
\* the content it had when StoreDirectLight stored it.
C1_DirectNeverMutated ==
    \A L \in DOMAIN directCache : directCache[L].directLight_ = hist.storedDirect[L]

\* C2: when BakeDirectCharts returns false after K lightmaps' direct bakes
\* have finished, the cache holds exactly K direct buffers, those of the first
\* K lightmaps of the traversal, each with the emission and every light of
\* its chunk accumulated, and none for the lightmap at which the stop was
\* observed.
C2_CancelledDirectLeavesCompleteBuffers ==
    hist.stopObserved = "direct" =>
        LET K == LightmapsBefore(chunkIdx) + chartIdx
        IN  /\ Cardinality(DOMAIN directCache) = K
            /\ DOMAIN directCache = 0..(K - 1)
            /\ \A L \in DOMAIN directCache :
                  /\ directCache[L].emission
                  /\ directCache[L].lights = 1..chunkLights[Owner(L)]
                  /\ directCache[L].directLight_ =
                        [t \in Texels |->
                            EmissionAt(L, t)
                            + SumTo([l \in 1..chunkLights[Owner(L)] |-> DirectAt(l, L, t)],
                                    chunkLights[Owner(L)])]
            /\ Vicinity.lightmaps_[chartIdx + 1] \notin DOMAIN directCache

C2_Witness ==
    /\ hist.stopObserved = "direct"
    /\ bakeResult = "cancelled"
    /\ chartIdx >= 1
    /\ chunkIdx = 2
    /\ chunkLights[bakingChunk] >= 1

\* C3: Bake returns false as soon as a sub-phase observes the stop: after the
\* direct phase observed it no step of the indirect phase has run, after
\* either observed it nothing more is stored or saved, and Bake returns true
\* only if neither observed a stop.
C3_StopState ==
    /\ hist.stopObserved # "none" => pc = "baked" /\ bakeResult = "cancelled"
    /\ hist.stopObserved = "direct" =>
          /\ hist.indirectSteps = 0
          /\ hist.storeLightmap = <<>>
          /\ hist.probeBakes = 0
          /\ hist.probeSaves = 0
          /\ lightmapCache = <<>>
          /\ savedProbes = <<>>
    /\ bakeResult = "ok" => hist.stopObserved = "none"

C3_NothingAfterStop ==
    hist.stopObserved # "none" =>
        /\ lightmapCache' = lightmapCache
        /\ directCache' = directCache
        /\ savedProbes' = savedProbes
        /\ hist' = hist

C3_BakeStopsWhenStopObserved == [](C3_StopState) /\ [][C3_NothingAfterStop]_vars

C3_Witness ==
    /\ hist.stopObserved = "indirect"
    /\ Len(hist.storeLightmap) >= 1
    /\ chunkIdx = 2

\* C4: every cache load reads a key whose store completed in an earlier
\* phase: no load finds its key missing, the direct phase has stored every
\* lightmap before the indirect phase starts, and every lightmap the stitch
\* phase loads has been stored by the indirect phase.
C4_LoadsFollowStores ==
    /\ hist.nullLoads = {}
    /\ pc # "nullDereference"
    /\ pc \in DirectPositions \cup IndirectPositions \cup StitchPositions =>
          /\ Range(chunks_) \subseteq DOMAIN vicinityCache
          /\ bakingChunk # NoChunk => bakingChunk \in DOMAIN vicinityCache
    /\ pc \in IndirectPositions =>
          /\ AllLightmaps \subseteq Range(hist.storeDirect)
          /\ bakedDirectLightmaps \subseteq Range(hist.storeDirect)
          /\ pc # "indirect_chunk" =>
                bakedDirectLightmaps = RequiredDirectLightmaps(Vicinity)
    /\ pc \in StitchPositions =>
          /\ Range(hist.loadLightmap) \subseteq Range(hist.storeLightmap)
          /\ AllLightmaps \subseteq DOMAIN lightmapCache

C4_Witness ==
    /\ pc = "stitch_image"
    /\ chunkIdx = 2
    /\ \E L \in RequiredDirectLightmaps(Vicinity) : L \notin Range(Vicinity.lightmaps_)

\* C5: chart indices are globally unique and contiguous from 0: once the
\* charts are generated, the chunk at position p of the traversal holds the
\* indices base .. base + count - 1, base being the number of charts of the
\* chunks before it; the ranges of distinct chunks are disjoint, their union
\* is 0 .. N - 1 with N = numLightmapCharts_, and N is the total chart count
\* of the chunk set, whatever the traversal order.
C5_ChartIndicesContiguous ==
    pc \notin {"constructed", "initFailed", "initialized", "charts"} =>
        /\ \A p \in 1..Len(chunks_) :
              LET base == SumTo([q \in 1..Len(chunks_) |-> geomCharts[chunks_[q]]], p - 1)
              IN  sceneCharts[chunks_[p]] =
                     [k \in 1..geomCharts[chunks_[p]] |-> base + (k - 1)]
        /\ \A c, d \in collectorChunks :
              c # d => Range(sceneCharts[c]) \cap Range(sceneCharts[d]) = {}
        /\ UNION {Range(sceneCharts[c]) : c \in collectorChunks} = AllLightmaps
        /\ numLightmapCharts_ = SetSum(geomCharts, collectorChunks)

C5_Witness ==
    /\ pc = "processed"
    /\ Len(chunks_) = 2
    /\ \A c \in collectorChunks : geomCharts[c] = 2

\* C6: in an uncancelled Bake StoreDirectLight is called exactly once for
\* every lightmap index 0 .. N - 1 and for no other index, and all of these
\* calls are made by the direct phase: they are complete when the indirect
\* phase starts and none is added until Bake returns true.
C6_DirectStoredExactlyOnce ==
    (pc \in IndirectPositions \/ (pc = "baked" /\ bakeResult = "ok")) =>
        /\ Len(hist.storeDirect) = numLightmapCharts_
        /\ Range(hist.storeDirect) = AllLightmaps

C6_Witness ==
    /\ pc = "baked"
    /\ bakeResult = "ok"
    /\ numLightmapCharts_ >= 3

\* C7: every texel of every final lightmap stored by StoreLightmap is >= 0,
\* also when the direct or the indirect buffer holds negative values.
C7_FinalLightmapNonNegative ==
    \A L \in DOMAIN lightmapCache : \A t \in Texels : lightmapCache[L][t] >= 0

C7_Witness ==
    /\ pc = "indirect_check"
    /\ chartIdx >= 1
    /\ \E L \in DOMAIN lightmapCache : \E t \in Texels :
          /\ directCache[L].directLight_[t] < 0
          /\ lightmapCache[L][t] = 0

\* C8: an uncancelled Bake run again on the same vicinities and lights leaves
\* the same direct buffers and the same final lightmaps in the cache as the
\* first run.
C8_BakeIdempotent ==
    (bakeRun >= 2 /\ pc = "baked" /\ bakeResult = "ok") => CacheSnapshot = hist.firstBake

C8_Witness ==
    /\ bakeRun = 2
    /\ pc = "baked"
    /\ bakeResult = "ok"
    /\ numLightmapCharts_ >= 2
    /\ settings_.directRadius > 0
    /\ \E L \in DOMAIN directCache : directCache[L].directLight_ # hist.storedDirect[L]

\* C9: the locality sort is invariant under translation: the chunks of a set
\* and the chunks of the translated set are sorted into the same relative
\* order.
C9_SortTranslationInvariant ==
    (sortedInput # <<>> /\ sortedTranslated # <<>>) =>
        \A p \in 1..Len(sortedInput) :
            sortedTranslated[p] = Translate(sortedInput[p], sortOffset)

\* C10: the probe data passed to SaveLightProbesBakedData holds, for every
\* probe, the contribution of the indirect probe bake of the chunk and the
\* contribution of the direct probe bake of every light of the chunk, and so
\* does every baked data file saved.
HasAllContributions(probe, chunk) ==
    /\ <<"indirect", chunk, 0>> \in probe.parts
    /\ \A l \in 1..chunkLights[chunk] : <<"direct", chunk, l>> \in probe.parts

C10_ProbesHoldBothContributions ==
    /\ pc = "probes_save" =>
          /\ Len(lightProbesBakedData) = Vicinity.numProbes
          /\ \A k \in 1..Len(lightProbesBakedData) :
                HasAllContributions(lightProbesBakedData[k], bakingChunk)
    /\ \A key \in DOMAIN savedProbes : \A k \in 1..ProbesPerGroup :
          HasAllContributions(savedProbes[key][k], key[1])

C10_Witness ==
    /\ pc = "probes_save"
    /\ groupIdx = 1
    /\ chunkLights[bakingChunk] >= 1
    /\ <<bakingChunk, 0>> \in DOMAIN savedProbes

(***************************************************************************)
(* Initialize on its own, under every environment: backend, scene file     *)
(* name, configured output directory and the outcome of each file system   *)
(* call.                                                                   *)
(***************************************************************************)
UnfilteredSettings ==
    {s \in SettingsWith(OutputDirectories) :
        s.directRadius = 0 /\ s.indirectRadius = 0 /\ s.numIterations = 0}

\* Every environment of Initialize; the image calls are CommitScene's.
InitializeEnvs == {e \in Envs : e.imageOk /\ e.imageSaveOk}

InitializeInit ==
    /\ InitWith(ChunkSets, InitializeEnvs, UnfilteredSettings)
    /\ NoSort

InitializeNext == Initialize

InitializeSpec == InitializeInit /\ [][InitializeNext]_vars

\* The four failure conditions, read off the state Initialize starts in.
UnsupportedBackend == ~env.pixelUVOffsetZero

OutputDirectoryUnderivable ==
    /\ settings_.outputDirectory_ = <<>>
    /\ \/ env.sceneFileName = <<>>
       \/ env.sceneFileName[Len(env.sceneFileName)] \notin Extensions

OutputDirectoryCreationFails == ~env.outputDirOk

GiFileCreationFails == ~env.giDirOk \/ ~env.giFileOk

\* chunks_ after a step holds every chunk of the collector once, ascending
\* by the key the comparison of Initialize computes.
ChunksCollectedAndSorted ==
    /\ Len(chunks_') = Cardinality(collectorChunks)
    /\ Range(chunks_') = collectorChunks
    /\ \A k \in 1..(Len(chunks_') - 1) :
          ~compareSwizzled(chunks_'[k + 1], chunks_'[k], BaseChunkIndex(chunks_'))

C11_InitializeStep ==
    Initialize =>
        /\ (initResult' # "ok") <=>
              \/ UnsupportedBackend
              \/ OutputDirectoryUnderivable
              \/ OutputDirectoryCreationFails
              \/ GiFileCreationFails
        /\ (initResult' = "ok") <=> (pc' = "initialized")
        /\ (initResult' = "ok") => ChunksCollectedAndSorted

\* C11: Initialize returns failure exactly when the backend has a non-zero
\* pixel UV offset, or the output directory is unset and cannot be derived
\* from the scene file name, or creating the output directory fails, or
\* creating the GI data file or its directory fails; in every other case it
\* returns success with the chunk list collected and sorted.
C11_InitializeFailsExactlyOnFourConditions == [][C11_InitializeStep]_vars

\* Initialize has succeeded with two chunks collected, and the output
\* directory it settled on has been created together with the GI file.
C11_Witness ==
    /\ pc = "initialized"
    /\ initResult = "ok"
    /\ Len(chunks_) = 2
    /\ settings_.outputDirectory_ = <<"data/", "scene", "/">>
    /\ settings_.outputDirectory_ \in fsDirs
    /\ (settings_.outputDirectory_ \o GiDataFileName) \in fsFiles

(***************************************************************************)
(* The pipeline over chunks with several light probe groups, filters and   *)
(* stitching off.                                                          *)
(***************************************************************************)
MaxSavedGroups == 2

ProbeSaveInit ==
    /\ InitWithGroups(ChunkSets, {GoodEnv}, UnfilteredSettings, {0, MaxSavedGroups})
    /\ NoSort

ProbeSaveNext == Next

ProbeSaveSpec == ProbeSaveInit /\ [][ProbeSaveNext]_vars

\* The groups of the chunks before position p of chunks_.
GroupsBefore(p) ==
    SumTo([k \in 1..Len(chunks_) |-> chunkGroups[chunks_[k]]], p - 1)

\* The probe baking calls made for the chunks before position p of chunks_.
ProbeBakesBefore(p) ==
    SumTo([k \in 1..Len(chunks_) |-> 1 + chunkLights[chunks_[k]]], p - 1)

\* C12: a failed SaveLightProbesBakedData does not abort the run: once a
\* save has failed, the remaining groups of the chunk are still saved, every
\* later chunk is still processed in full, BakeIndirectAndFilter returns
\* false only when it observes the stop token, and it returns true with
\* every group of every chunk handed to the save and every lightmap stored.
C12_FailedSaveDoesNotAbort ==
    hist.failedSaves > 0 =>
        /\ bakeResult = "cancelled" => hist.stopObserved = "indirect"
        /\ (pc = "indirect_chunk" /\ chunkIdx <= Len(chunks_) + 1) =>
              /\ hist.probeSaves = GroupsBefore(chunkIdx)
              /\ hist.probeBakes = ProbeBakesBefore(chunkIdx)
              /\ Len(hist.storeLightmap) = LightmapsBefore(chunkIdx)
              /\ Range(hist.storeLightmap) = 0..(LightmapsBefore(chunkIdx) - 1)
        /\ pc = "probes_save" =>
              hist.probeSaves = GroupsBefore(chunkIdx) + groupIdx
        /\ bakeResult = "ok" =>
              /\ hist.stopObserved = "none"
              /\ hist.probeSaves = GroupsBefore(Len(chunks_) + 1)
              /\ hist.probeBakes = ProbeBakesBefore(Len(chunks_) + 1)
              /\ Len(hist.storeLightmap) = numLightmapCharts_
              /\ Range(hist.storeLightmap) = AllLightmaps

\* Bake has returned true although the save of the first group of the first
\* chunk failed: the second group of that chunk was saved, and the second
\* chunk had its lightmap stored and its groups saved.
C12_Witness ==
    /\ bakeResult = "ok"
    /\ Len(chunks_) = 2
    /\ chunkGroups[chunks_[1]] = 2
    /\ chunkGroups[chunks_[2]] = 2
    /\ hist.failedSaves = 1
    /\ <<chunks_[1], 0>> \notin DOMAIN savedProbes
    /\ <<chunks_[1], 1>> \in DOMAIN savedProbes
    /\ <<chunks_[2], 0>> \in DOMAIN savedProbes
    /\ geomCharts[chunks_[2]] >= 1
    /\ Range(hist.storeLightmap) = AllLightmaps

(***************************************************************************)
(* Properties of the stitch phase.                                         *)
(***************************************************************************)
\* The lightmap the stitch phase is working on.
StitchedLightmap == Vicinity.lightmaps_[chartIdx + 1]

\* The final lightmap copied texel by texel with alpha 1.
StraightCopy(lightmap) == [t \in Texels |-> [rgb |-> lightmap[t], a |-> 1]]

\* C13: stitching with 0 iterations configured, or of a chart without
\* seams, is a straight copy: the blend buffer the image is built from holds
\* at every texel the RGB of the final lightmap and alpha 1, and the seam
\* solver is not invoked for that lightmap.
C13_NoStitchIsStraightCopy ==
    /\ (pc = "stitch_image" /\ (settings_.numIterations = 0 \/ ~Vicinity.seams_[chartIdx + 1])) =>
          /\ buffer = StraightCopy(lightmapCache[StitchedLightmap])
          /\ StitchedLightmap \notin Range(hist.stitchCalls)
    /\ settings_.numIterations = 0 => hist.stitchCalls = <<>>

\* The blend buffer has been built, with 0 iterations configured, for a
\* chart that has seams and whose final lightmap differs between texels.
C13_Witness ==
    /\ pc = "stitch_image"
    /\ settings_.numIterations = 0
    /\ Vicinity.seams_[chartIdx + 1]
    /\ \E t, u \in Texels :
          lightmapCache[StitchedLightmap][t] # lightmapCache[StitchedLightmap][u]
    /\ buffer = StraightCopy(lightmapCache[StitchedLightmap])

(***************************************************************************)
(* The pipeline under every outcome of the image calls of CommitScene and  *)
(* with and without a resource directory holding the output directory.     *)
(***************************************************************************)
CommitEnvs ==
    {e \in Envs : /\ e.pixelUVOffsetZero /\ e.outputDirOk /\ e.giDirOk /\ e.giFileOk
                  /\ e.sceneFileName = GoodEnv.sceneFileName}

CommitSettings == {s \in UnfilteredSettings : s.outputDirectory_ # <<>>}

CommitInit ==
    /\ InitWith(ChunkSets, CommitEnvs, CommitSettings)
    /\ NoSort

CommitNext == Next

CommitSpec == CommitInit /\ [][CommitNext]_vars

\* The number of SaveFile calls made with the file name of lightmap i.
SaveCalls(i) ==
    Cardinality({k \in 1..Len(hist.saveImage) :
        hist.saveImage[k] = GetLightmapFileName(settings_.outputDirectory_, i)})

\* The number of LoadLightmap calls of the stitch phase for lightmap i.
LoadCalls(i) ==
    Cardinality({k \in 1..Len(hist.loadLightmap) : hist.loadLightmap[k] = i})

\* The entry of the scene's lightmap list for index i names the file of
\* lightmap i: by its resource name, or by the file name itself when no
\* resource directory holds it.
ListedUnderFileName(i) ==
    LET fileName == GetLightmapFileName(settings_.outputDirectory_, i)
        resourceName == GetResourceName(env.resourceDirs, fileName)
    IN  /\ i + 1 \in DOMAIN sceneLightmaps
        /\ sceneLightmaps[i + 1] = IF resourceName = <<>> THEN fileName ELSE resourceName

TranslatedComponent(chunk, base, j) == chunk[j + 1] - base[j + 1]

\* Every translated component of chunk fits in maxBitsPerComponent bits.
FitsKey(chunk, base) ==
    \A j \in 0..(numComponents - 1) :
        /\ TranslatedComponent(chunk, base, j) >= 0
        /\ TranslatedComponent(chunk, base, j) < Pow2(maxBitsPerComponent)

\* C15: the sort key is the Morton interleave of the translated coordinates:
\* for every sorted chunk whose translated components fit in 21 bits, bit
\* i*3+j of the key returned by Swizzle is bit i of the j-th translated
\* component, for i in 0..20 and j in 0..2, and every other bit of the key
\* is 0.
C15_KeyIsMortonInterleave ==
    sortedInput # <<>> =>
        LET base == BaseChunkIndex(sortInput) IN
        \A p \in 1..Len(sortInput) :
            FitsKey(sortInput[p], base) =>
                /\ \A i \in 0..(maxBitsPerComponent - 1), j \in 0..(numComponents - 1) :
                      (i * numComponents + j \in Swizzle(sortInput[p], base))
                          <=> (UnsignedBit(TranslatedComponent(sortInput[p], base, j), i) = 1)
                /\ Swizzle(sortInput[p], base)
                      \subseteq 0..(maxBitsPerComponent * numComponents - 1)

\* C16: ties are impossible within the documented limit: two distinct
\* chunks of the sorted set whose translated components fit in 21 bits get
\* different keys, so of any two of them exactly one compares less than the
\* other.
C16_NoTiesWithinLimit ==
    sortedInput # <<>> =>
        LET base == BaseChunkIndex(sortInput) IN
        \A p, q \in 1..Len(sortInput) :
            (p # q /\ FitsKey(sortInput[p], base) /\ FitsKey(sortInput[q], base)) =>
                /\ Swizzle(sortInput[p], base) # Swizzle(sortInput[q], base)
                /\ compareSwizzled(sortInput[p], sortInput[q], base)
                      # compareSwizzled(sortInput[q], sortInput[p], base)

(***************************************************************************)
(* Properties of the indirect phase.                                       *)
(***************************************************************************)
\* The lightmap indices of the ray-traceable geometries of the vicinity of
\* the chunk being baked, the no-lightmap sentinel left out.
ReferencedLightmaps ==
    {L \in Vicinity.raytracerGeometries : L # M_MAX_UNSIGNED}

\* C17: for each chunk in the indirect phase the table of direct buffers
\* handed to the indirect bakers holds exactly the required set: entry L is
\* a loaded buffer if and only if some ray-traceable geometry of the chunk's
\* vicinity has lightmap index L other than the sentinel, every other entry
\* of the table 0..N-1 is empty, and LoadDirectLight is called for no key
\* outside that set to build the table.
C17_DirectTableIsRequiredSet ==
    (pc \in IndirectPositions /\ pc # "indirect_chunk") =>
        /\ \A L \in AllLightmaps :
              L \in bakedDirectLightmaps <=> L \in ReferencedLightmaps
        /\ bakedDirectLightmaps \subseteq AllLightmaps
        /\ hist.tableLoads = ReferencedLightmaps

\* The indirect bake of a chart runs with a table that holds the chunk's
\* own direct buffer and leaves the entry of another chunk's lightmap empty.
C17_Witness ==
    /\ pc = "indirect_bake"
    /\ directRef \in bakedDirectLightmaps
    /\ \E L \in AllLightmaps : L \notin bakedDirectLightmaps

\* The calls the indirect loop makes for one lightmap, in the order of the
\* source, under the configured radii.
ExpectedChartSteps ==
    <<"allocate", "bake", "normalize">>
        \o (IF settings_.directRadius > 0 THEN <<"filterDirect">> ELSE <<>>)
        \o (IF settings_.indirectRadius > 0 THEN <<"filterIndirect">> ELSE <<>>)
        \o <<"combine", "store">>

\* s is an initial part of e.
IsPrefix(s, e) == Len(s) <= Len(e) /\ s = SubSeq(e, 1, Len(s))

\* The positions of the loop at which the indirect buffer has been normalised.
NormalizedPositions ==
    {"indirect_filter_direct", "indirect_filter_indirect", "indirect_combine", "indirect_store"}

\* C18: for every lightmap of the indirect phase the steps occur in this
\* order and each at most once: indirect bake into a freshly allocated
\* buffer, normalisation, direct filtering, indirect filtering, combination,
\* StoreLightmap.  The buffer that is filtered and combined carries the
\* weight of one normalisation of one bake, and the lightmap is stored only
\* after the whole sequence.
C18_IndirectStepsInOrder ==
    /\ (pc \in IndirectPositions \ {"indirect_chunk", "indirect_probes"}) =>
          IsPrefix(hist.chartSteps, ExpectedChartSteps)
    /\ pc = "indirect_bake" => bakedIndirect = NewBakedIndirect
    /\ pc = "indirect_normalize" =>
          \A t \in Texels : bakedIndirect[t].w = IndirectSamples
    /\ pc \in NormalizedPositions =>
          /\ \A t \in Texels : bakedIndirect[t].w = 1
          /\ Cardinality({k \in 1..Len(hist.chartSteps) : hist.chartSteps[k] = "normalize"}) = 1
    /\ (pc = "indirect_check" /\ hist.chartSteps # <<>>) =>
          hist.chartSteps = ExpectedChartSteps

\* A lightmap has been stored after both filters ran on it.
C18_Witness ==
    /\ pc = "indirect_check"
    /\ chartIdx >= 1
    /\ settings_.directRadius > 0
    /\ settings_.indirectRadius > 0
    /\ hist.chartSteps =
          <<"allocate", "bake", "normalize", "filterDirect", "filterIndirect", "combine", "store">>

\* The calls made so far for the lightmap of the indirect loop include step.
StepTaken(step) == \E k \in 1..Len(hist.chartSteps) : hist.chartSteps[k] = step

\* C19: a filter kernel radius of 0 disables that filter: with direct radius
\* 0 the direct buffer used in the combination is the buffer the direct
\* phase stored, with indirect radius 0 the indirect buffer used in the
\* combination is the normalised bake result, and each filter is invoked for
\* a lightmap if and only if its own radius is greater than 0, whatever the
\* other radius is.
C19_ZeroRadiusDisablesFilter ==
    pc = "indirect_combine" =>
        /\ settings_.directRadius = 0 =>
              directCache[directRef].directLight_ = hist.storedDirect[directRef]
        /\ settings_.indirectRadius = 0 => bakedIndirect = hist.normalized
        /\ StepTaken("filterDirect") <=> settings_.directRadius > 0
        /\ StepTaken("filterIndirect") <=> settings_.indirectRadius > 0

\* The combination is about to run with the direct filter off and the
\* indirect filter on: the direct buffer is as stored, holding light, and
\* the indirect buffer is no longer the normalised bake result.
C19_Witness ==
    /\ pc = "indirect_combine"
    /\ settings_.directRadius = 0
    /\ settings_.indirectRadius > 0
    /\ ~StepTaken("filterDirect")
    /\ StepTaken("filterIndirect")
    /\ \E t \in Texels : directCache[directRef].directLight_[t] # 0
    /\ directCache[directRef].directLight_ = hist.storedDirect[directRef]
    /\ bakedIndirect # hist.normalized

\* The chart of lightmap L has seams.
HasSeams(L) ==
    LET vicinity == vicinityCache[Owner(L)]
    IN  \E k \in 1..Len(vicinity.lightmaps_) : vicinity.lightmaps_[k] = L /\ vicinity.seams_[k]

\* The blend buffer built from lightmap L alone.
BlendOf(L) ==
    IF settings_.numIterations > 0 /\ HasSeams(L)
    THEN StitchLightmapSeams(lightmapCache[L], settings_.numIterations)
    ELSE StraightCopy(lightmapCache[L])

\* The image built from lightmap L alone: pixel p from texel p.
ImageOf(L) == [p \in Texels |-> PixelColor(BlendOf(L)[p])]

\* C20: the scratch state of the stitch phase is fully overwritten for each
\* lightmap: when an image is saved every element of the blend buffer and
\* every pixel of the reusable image has been written from the current
\* lightmap, so every saved image is the image of its own lightmap and holds
\* no texel of a lightmap processed before.
C20_StitchScratchOverwritten ==
    /\ pc \in {"stitch_image", "stitch_save"} => buffer = BlendOf(StitchedLightmap)
    /\ pc = "stitch_save" => lightmapImage = ImageOf(StitchedLightmap)
    /\ \A L \in AllLightmaps :
          LET fileName == GetLightmapFileName(settings_.outputDirectory_, L) IN
          fileName \in DOMAIN savedImages => savedImages[fileName] = ImageOf(L)

\* The image of a second lightmap is about to be saved, and it differs from
\* the image saved before it in the same scratch image.
C20_Witness ==
    /\ pc = "stitch_save"
    /\ Len(hist.saveImage) >= 1
    /\ savedImages[hist.saveImage[Len(hist.saveImage)]] # lightmapImage
    /\ \A p \in Texels : savedImages[hist.saveImage[Len(hist.saveImage)]][p] # lightmapImage[p]
    /\ lightmapImage = ImageOf(StitchedLightmap)

(***************************************************************************)
(* Bake called with the token already stopped: the caller may stop the     *)
(* token between ProcessScene and Bake, and at no other point, so that in  *)
(* this specification the token is stopped during a Bake exactly when it   *)
(* was stopped at the call.                                                *)
(***************************************************************************)
StopBeforeBake ==
    /\ pc = "processed"
    /\ RequestStop

StoppedBakeInit ==
    /\ InitWithGroups(ChunkSets, {GoodEnv}, SettingsWith({<<"data/", "scene">>}),
                      0..MaxGroups)
    /\ NoSort

StoppedBakeNext ==
    \/ Initialize
    \/ BeginProcessScene
    \/ GenerateChartsForChunk
    \/ UpdateSceneLightmaps
    \/ GenerateBakingChunk
    \/ EndProcessScene
    \/ StopBeforeBake
    \/ Bake
    \/ DirectLoadChunk
    \/ DirectCheck
    \/ DirectEmission
    \/ DirectLight
    \/ DirectStore
    \/ IndirectLoadChunk
    \/ IndirectProbes
    \/ IndirectCheck
    \/ IndirectBake
    \/ IndirectNormalize
    \/ IndirectFilterDirect
    \/ IndirectFilterIndirect
    \/ IndirectCombine
    \/ IndirectStore
    \/ ProbesDirect
    \/ ProbesSave
    \/ CommitScene
    \/ StitchLoadChunk
    \/ StitchBlend
    \/ StitchImage
    \/ StitchSave

StoppedBakeSpec == StoppedBakeInit /\ [][StoppedBakeNext]_vars

StoppedAtBake == stopToken /\ bakeRun >= 1

\* C21: when the stop token is already stopped at the call of Bake, Bake
\* never returns true and makes no StoreDirectLight, no StoreLightmap, no
\* probe bake and no probe-data save, whatever the chunks hold; chunks with
\* probe groups and no lightmap charts included.
C21_StoppedBakeDoesNoWork ==
    StoppedAtBake =>
        /\ bakeResult # "ok"
        /\ hist.storeDirect = <<>>
        /\ hist.storeLightmap = <<>>
        /\ hist.probeBakes = 0
        /\ hist.probeSaves = 0

(***************************************************************************)
(* C22: the combine loop reads inside the direct and indirect buffers.     *)
(***************************************************************************)
\* The positions of the indirect loop at which the lightmap's direct buffer
\* is loaded and its indirect buffer allocated.
CombineOperandPositions ==
    {"indirect_bake", "indirect_normalize", "indirect_filter_direct",
     "indirect_filter_indirect", "indirect_combine", "indirect_store"}

=============================================================================
